---------------------------- MODULE Spec2Model ----------------------------
(***************************************************************************)
(* GastoTrack: the persistence and aggregation layer (database.py).        *)
(*                                                                         *)
(* The store is the SQLite file: the two tables and the AUTOINCREMENT      *)
(* bookkeeping (sqlite_sequence).  Every operation of database.py is one   *)
(* action that runs the whole function: validation, connection, cursor,    *)
(* statement, row-count check, commit or rollback, close.  A storage       *)
(* fault is an input of the action: the step after the connection is       *)
(* obtained ("cursor", "execute", "commit") at which the driver raises.    *)
(* The program is single-threaded: a call is made when the caller has      *)
(* taken the outcome of the one before (Return).                           *)
(*                                                                         *)
(* Text is a TLA+ string, Python None and SQL NULL are the value NULL,     *)
(* amounts are integers in cents, and NaN is the float that compares       *)
(* false with everything.                                                  *)
(*                                                                         *)
(* ReportSpec runs the reports over a wider range of stored expenses, and  *)
(* UtilsSpec the stateless helpers of utils.py and the budget progress of  *)
(* app.py's dashboard.                                                     *)
(***************************************************************************)
EXTENDS Integers, Sequences, FiniteSets, TLC

VARIABLES
    expenses,          \* committed rows of table expenses
    budgets,           \* committed rows of table budgets
    sqlite_sequence,   \* AUTOINCREMENT: largest id ever committed, per table
    now,               \* CURRENT_TIMESTAMP, in seconds
    last,              \* the call that has just ended: operation, arguments, outcome
    ret,               \* what that call returned (<<>> when it raised)
    deleted,           \* ids on which delete_expense succeeded (history)
    before             \* the store when the call was made (history)

vars == <<expenses, budgets, sqlite_sequence, now, last, ret, deleted, before>>

------------------------------------------------------------------------------
(* Bounds *)

\* rows inserted over a run, both tables together
MaxRows == 3
\* seconds the clock runs
MaxTime == 2

------------------------------------------------------------------------------
(* Values *)

NULL == "<NULL>"

\* float('nan'), encoded outside the range of the amounts used
NaN == -(1000000)

\* amount <= 0 in Python: every comparison with NaN is false
LeZero(amount) == amount # NaN /\ amount <= 0

\* Python truthiness of a text-or-None argument: None and "" are falsy
Truthy(x) == x # NULL /\ x # ""

\* float(amount) bound to a REAL column: SQLite stores float('nan') as NULL,
\* every other float as it is
BindsNull(amount) == amount = NaN

NoArgs == [none |-> TRUE]
NoId == 0

------------------------------------------------------------------------------
(* Text: characters, collation, LIKE *)

Alphabet == " %&-0123456789ABCDEFGHIJKLMNOPQRSTUVWXYZ_abcdefghijklmnopqrstuvwxyz"
Uppers == "ABCDEFGHIJKLMNOPQRSTUVWXYZ"
Lowers == "abcdefghijklmnopqrstuvwxyz"

Char(s, i) == SubSeq(s, i, i)

IndexIn(c, str) ==
    IF \E i \in 1..Len(str) : Char(str, i) = c
    THEN CHOOSE i \in 1..Len(str) : Char(str, i) = c
    ELSE 0

\* SQLite's BINARY collation on ASCII text: byte order
RECURSIVE TextLess(_, _)
TextLess(a, b) ==
    IF Len(b) = 0 THEN FALSE
    ELSE IF Len(a) = 0 THEN TRUE
    ELSE IF Char(a, 1) = Char(b, 1)
         THEN TextLess(SubSeq(a, 2, Len(a)), SubSeq(b, 2, Len(b)))
         ELSE IndexIn(Char(a, 1), Alphabet) < IndexIn(Char(b, 1), Alphabet)

TextLeq(a, b) == a = b \/ TextLess(a, b)

\* LIKE folds the case of ASCII letters
Fold(c) ==
    IF IndexIn(c, Uppers) > 0 THEN Char(Lowers, IndexIn(c, Uppers)) ELSE c

\* text LIKE pattern: % matches any run of characters, _ any one character
RECURSIVE LikeMatch(_, _)
LikeMatch(pattern, text) ==
    IF Len(pattern) = 0 THEN Len(text) = 0
    ELSE IF Char(pattern, 1) = "%"
         THEN \/ LikeMatch(SubSeq(pattern, 2, Len(pattern)), text)
              \/ /\ Len(text) > 0
                 /\ LikeMatch(pattern, SubSeq(text, 2, Len(text)))
    ELSE /\ Len(text) > 0
         /\ \/ Char(pattern, 1) = "_"
            \/ Fold(Char(pattern, 1)) = Fold(Char(text, 1))
         /\ LikeMatch(SubSeq(pattern, 2, Len(pattern)), SubSeq(text, 2, Len(text)))

\* x LIKE pattern in a WHERE clause: NULL LIKE p is NULL, which is not true
Like(x, pattern) == x # NULL /\ LikeMatch(pattern, x)

------------------------------------------------------------------------------
(* The store *)

Db == [expenses |-> expenses, budgets |-> budgets, sqlite_sequence |-> sqlite_sequence]

Store(d) ==
    /\ expenses' = d.expenses
    /\ budgets' = d.budgets
    /\ sqlite_sequence' = d.sqlite_sequence

\* conn.commit(): the transaction's work becomes the committed store
Commit(committed, work) == work

\* mutant: the except branch leaves the transaction's work in place
Rollback_Keeps(committed, work) == work

\* conn.rollback(): the transaction's work is discarded
Rollback(committed, work) == committed

------------------------------------------------------------------------------
(* Statements: [ok, db, rowcount]; a statement that fails changes nothing *)

Failed(d) == [ok |-> FALSE, db |-> d, rowcount |-> 0]

\* the NOT NULL constraints of table expenses
NotNull(description, amount, category, date) ==
    description # NULL /\ ~BindsNull(amount) /\ category # NULL /\ date # NULL

\* mutant: the notes column is left out of the INSERT
InsertExpense_NoNotes(d, description, amount, category, date, notes) ==
    LET id == d.sqlite_sequence.expenses + 1
        row == [id |-> id, description |-> description, amount |-> amount,
                category |-> category, date |-> date, notes |-> NULL,
                created_at |-> now]
    IN  IF ~NotNull(description, amount, category, date)
        THEN Failed(d)
        ELSE [ok |-> TRUE,
              db |-> [d EXCEPT !.expenses = @ \cup {row},
                               !.sqlite_sequence.expenses = id],
              rowcount |-> 1]

\* mutant: id INTEGER PRIMARY KEY without AUTOINCREMENT (largest id in the table + 1)
InsertExpense_Rowid(d, description, amount, category, date, notes) ==
    LET ids == {r.id : r \in d.expenses}
        id == IF ids = {} THEN 1 ELSE (CHOOSE m \in ids : \A i \in ids : i <= m) + 1
        row == [id |-> id, description |-> description, amount |-> amount,
                category |-> category, date |-> date, notes |-> notes,
                created_at |-> now]
    IN  IF ~NotNull(description, amount, category, date)
        THEN Failed(d)
        ELSE [ok |-> TRUE,
              db |-> [d EXCEPT !.expenses = @ \cup {row},
                               !.sqlite_sequence.expenses = @ + 1],
              rowcount |-> 1]

\* INSERT INTO expenses (description, amount, category, date, notes) VALUES (?,?,?,?,?)
InsertExpense(d, description, amount, category, date, notes) ==
    LET id == d.sqlite_sequence.expenses + 1
        row == [id |-> id, description |-> description, amount |-> amount,
                category |-> category, date |-> date, notes |-> notes,
                created_at |-> now]
    IN  IF ~NotNull(description, amount, category, date)
        THEN Failed(d)
        ELSE [ok |-> TRUE,
              db |-> [d EXCEPT !.expenses = @ \cup {row},
                               !.sqlite_sequence.expenses = id],
              rowcount |-> 1]

\* mutant: the UPDATE also stamps created_at
UpdateExpense_Touch(d, expense_id, description, amount, category, date, notes) ==
    LET hit == {r \in d.expenses : r.id = expense_id}
        new(r) == [r EXCEPT !.description = description, !.amount = amount,
                            !.category = category, !.date = date, !.notes = notes,
                            !.created_at = now]
    IN  IF hit # {} /\ ~NotNull(description, amount, category, date)
        THEN Failed(d)
        ELSE [ok |-> TRUE,
              db |-> [d EXCEPT !.expenses = (@ \ hit) \cup {new(r) : r \in hit}],
              rowcount |-> Cardinality(hit)]

\* UPDATE expenses SET description=?, amount=?, category=?, date=?, notes=? WHERE id=?
UpdateExpense(d, expense_id, description, amount, category, date, notes) ==
    LET hit == {r \in d.expenses : r.id = expense_id}
        new(r) == [r EXCEPT !.description = description, !.amount = amount,
                            !.category = category, !.date = date, !.notes = notes]
    IN  IF hit # {} /\ ~NotNull(description, amount, category, date)
        THEN Failed(d)
        ELSE [ok |-> TRUE,
              db |-> [d EXCEPT !.expenses = (@ \ hit) \cup {new(r) : r \in hit}],
              rowcount |-> Cardinality(hit)]

\* DELETE FROM expenses WHERE id=?
DeleteExpense(d, expense_id) ==
    LET hit == {r \in d.expenses : r.id = expense_id}
    IN  [ok |-> TRUE,
         db |-> [d EXCEPT !.expenses = @ \ hit],
         rowcount |-> Cardinality(hit)]

\* mutant: a plain INSERT into a table whose category is not UNIQUE
ReplaceBudget_Insert(d, category, amount, period, description) ==
    LET id == d.sqlite_sequence.budgets + 1
        row == [id |-> id, category |-> category, amount |-> amount,
                period |-> IF period = NULL THEN "Monthly" ELSE period,
                description |-> description,
                created_at |-> now, updated_at |-> now]
    IN  IF category = NULL \/ BindsNull(amount)
        THEN Failed(d)
        ELSE [ok |-> TRUE,
              db |-> [d EXCEPT !.budgets = @ \cup {row},
                               !.sqlite_sequence.budgets = id],
              rowcount |-> 1]

\* mutant: an upsert, the row that holds the category is updated in place
ReplaceBudget_KeepsId(d, category, amount, period, description) ==
    LET clash == {b \in d.budgets : b.category = category}
        id == IF clash = {} THEN d.sqlite_sequence.budgets + 1
              ELSE (CHOOSE b \in clash : TRUE).id
        row == [id |-> id, category |-> category, amount |-> amount,
                period |-> IF period = NULL THEN "Monthly" ELSE period,
                description |-> description,
                created_at |-> now, updated_at |-> now]
    IN  IF category = NULL \/ BindsNull(amount)
        THEN Failed(d)
        ELSE [ok |-> TRUE,
              db |-> [d EXCEPT !.budgets = (@ \ clash) \cup {row},
                               !.sqlite_sequence.budgets =
                                   IF clash = {} THEN id ELSE @],
              rowcount |-> 1]

\* INSERT OR REPLACE INTO budgets (category, amount, period, description, updated_at)
\* VALUES (?, ?, ?, ?, CURRENT_TIMESTAMP): a NULL period takes the column's default,
\* the row that holds the category (UNIQUE) is deleted, and the new row gets a
\* fresh AUTOINCREMENT id and the default created_at
ReplaceBudget(d, category, amount, period, description) ==
    LET id == d.sqlite_sequence.budgets + 1
        clash == {b \in d.budgets : b.category = category}
        row == [id |-> id, category |-> category, amount |-> amount,
                period |-> IF period = NULL THEN "Monthly" ELSE period,
                description |-> description,
                created_at |-> now, updated_at |-> now]
    IN  IF category = NULL \/ BindsNull(amount)
        THEN Failed(d)
        ELSE [ok |-> TRUE,
              db |-> [d EXCEPT !.budgets = (@ \ clash) \cup {row},
                               !.sqlite_sequence.budgets = id],
              rowcount |-> 1]

\* DELETE FROM budgets WHERE id=?
DeleteBudget(d, budget_id) ==
    LET hit == {b \in d.budgets : b.id = budget_id}
    IN  [ok |-> TRUE,
         db |-> [d EXCEPT !.budgets = @ \ hit],
         rowcount |-> Cardinality(hit)]

------------------------------------------------------------------------------
(* Dates: strftime('%Y-%m', date) *)

Digits == "0123456789"

IsDigit(c) == IndexIn(c, Digits) > 0
Digit(c) == IndexIn(c, Digits) - 1
Num2(s, i) == 10 * Digit(Char(s, i)) + Digit(Char(s, i + 1))
Num4(s, i) == 100 * Num2(s, i) + Num2(s, i + 2)

\* the text SQLite reads as a date here: YYYY-MM-DD, month 01..12, day 01..31
IsDateText(date) ==
    /\ date # NULL
    /\ Len(date) = 10
    /\ \A i \in {1, 2, 3, 4, 6, 7, 9, 10} : IsDigit(Char(date, i))
    /\ Char(date, 5) = "-" /\ Char(date, 8) = "-"
    /\ Num2(date, 6) \in 1..12
    /\ Num2(date, 9) \in 1..31

IsLeap(y) == (y % 4 = 0 /\ y % 100 # 0) \/ y % 400 = 0

DaysInMonth(y, m) ==
    IF m = 2 THEN (IF IsLeap(y) THEN 29 ELSE 28)
    ELSE IF m \in {4, 6, 9, 11} THEN 30 ELSE 31

Fmt2(n) == Char(Digits, (n \div 10) + 1) \o Char(Digits, (n % 10) + 1)

\* mutant: the format is '%Y'
StrftimeYm_Y(date, normalizes) ==
    IF ~IsDateText(date) THEN NULL ELSE SubSeq(date, 1, 4)

\* text that is no date gives NULL. For a day past the end of its month the
\* answer depends on the SQLite library the interpreter is linked with: some
\* releases print the month as written (3.40.1: 2024-02-30 gives 2024-02),
\* others normalize the date first (2024-02-30 is 1 March, 2024-03)
StrftimeYm(date, normalizes) ==
    IF ~IsDateText(date) THEN NULL
    ELSE IF Num2(date, 9) <= DaysInMonth(Num4(date, 1), Num2(date, 6)) \/ ~normalizes
    THEN SubSeq(date, 1, 7)
    ELSE SubSeq(date, 1, 5) \o Fmt2(Num2(date, 6) + 1)

------------------------------------------------------------------------------
(* Queries *)

Perms(S) ==
    {f \in [1..Cardinality(S) -> S] :
        \A i, j \in 1..Cardinality(S) : i # j => f[i] # f[j]}

\* the orders ORDER BY allows: rows that tie on the sort key come in any order
\* (ahead is the set of pairs <<a, b>> where a must come ahead of b)
Orderings(S, ahead) ==
    {s \in Perms(S) :
        \A i, j \in 1..Cardinality(S) : i < j => <<s[j], s[i]>> \notin ahead}

ExpenseBefore_Asc(r1, r2) ==
    \/ TextLess(r2.date, r1.date)
    \/ r1.date = r2.date /\ r1.created_at < r2.created_at

\* ORDER BY date DESC, created_at DESC
ExpenseBefore(r1, r2) ==
    \/ TextLess(r2.date, r1.date)
    \/ r1.date = r2.date /\ r1.created_at > r2.created_at

\* SELECT * FROM expenses ORDER BY date DESC, created_at DESC
SelectExpenses(d) == Orderings(d.expenses,
              {p \in (d.expenses) \X (d.expenses) : ExpenseBefore(p[1], p[2])})

\* ORDER BY category
BudgetBefore(b1, b2) == TextLess(b1.category, b2.category)

\* SELECT * FROM budgets ORDER BY category
SelectBudgets(d) == Orderings(d.budgets,
              {p \in (d.budgets) \X (d.budgets) : BudgetBefore(p[1], p[2])})

CategoryBefore(c1, c2) == TextLess(c1, c2)

\* SELECT DISTINCT category FROM expenses ORDER BY category
SelectCategories(d) == Orderings({r.category : r \in d.expenses},
              {p \in ({r.category : r \in d.expenses}) \X ({r.category : r \in d.expenses}) : CategoryBefore(p[1], p[2])})

\* WHERE description LIKE ? OR notes LIKE ? OR category LIKE ?
\* ORDER BY date DESC, created_at DESC
SelectSearch(d, search_pattern) ==
    LET rows == {r \in d.expenses : \/ Like(r.description, search_pattern)
                                    \/ Like(r.notes, search_pattern)
                                    \/ Like(r.category, search_pattern)}
    IN  Orderings(rows, {p \in rows \X rows : ExpenseBefore(p[1], p[2])})

RECURSIVE SumAmount(_)
SumAmount(S) ==
    IF S = {} THEN 0
    ELSE LET r == CHOOSE x \in S : TRUE IN r.amount + SumAmount(S \ {r})

MinAmount(S) == CHOOSE a \in {r.amount : r \in S} : \A r \in S : a <= r.amount
MaxAmount(S) == CHOOSE a \in {r.amount : r \in S} : \A r \in S : a >= r.amount

\* mutant: the bounds themselves are left out
InRange_Exclusive(date, start_date, end_date) ==
    /\ Truthy(start_date) => TextLess(start_date, date)
    /\ Truthy(end_date) => TextLess(date, end_date)

\* the WHERE clause get_expense_summary builds from its two optional bounds
InRange(date, start_date, end_date) ==
    IF Truthy(start_date) /\ Truthy(end_date)
    THEN TextLeq(start_date, date) /\ TextLeq(date, end_date)
    ELSE IF Truthy(start_date) THEN TextLeq(start_date, date)
    ELSE IF Truthy(end_date) THEN TextLeq(date, end_date)
    ELSE TRUE

\* ORDER BY total_amount DESC
SummaryBefore(g1, g2) == g1.total_amount > g2.total_amount

\* SELECT category, COUNT(*), SUM(amount), AVG(amount), MIN(amount), MAX(amount)
\* FROM expenses [WHERE ...] GROUP BY category ORDER BY total_amount DESC;
\* avg_amount is the quotient total/count, kept as the pair
SelectSummary(d, start_date, end_date) ==
    LET rows == {r \in d.expenses : InRange(r.date, start_date, end_date)}
        group(c) == {r \in rows : r.category = c}
        line(c) == [category |-> c,
                    transaction_count |-> Cardinality(group(c)),
                    total_amount |-> SumAmount(group(c)),
                    avg_amount |-> <<SumAmount(group(c)), Cardinality(group(c))>>,
                    min_amount |-> MinAmount(group(c)),
                    max_amount |-> MaxAmount(group(c))]
        lines == {line(c) : c \in {r.category : r \in rows}}
    IN  Orderings(lines, {p \in lines \X lines : SummaryBefore(p[1], p[2])})

\* ORDER BY month DESC: NULL sorts below every text
MonthBefore(g1, g2) ==
    /\ g1.month # NULL
    /\ g2.month = NULL \/ TextLess(g2.month, g1.month)

\* SELECT strftime('%Y-%m', date) as month, SUM(amount), COUNT(*) FROM expenses
\* GROUP BY strftime('%Y-%m', date) ORDER BY month DESC
SelectMonthly(d) ==
    UNION { LET group(m) == {r \in d.expenses : StrftimeYm(r.date, normalizes) = m}
                line(m) == [month |-> m,
                            total_amount |-> SumAmount(group(m)),
                            transaction_count |-> Cardinality(group(m))]
                lines == {line(m) :
                            m \in {StrftimeYm(r.date, normalizes) : r \in d.expenses}}
            IN  Orderings(lines, {p \in lines \X lines : MonthBefore(p[1], p[2])}) :
            normalizes \in BOOLEAN }

DefaultCategories ==
    <<"Food & Dining", "Transportation", "Shopping", "Entertainment",
      "Bills & Utilities", "Healthcare", "Travel", "Education", "Other">>

------------------------------------------------------------------------------
(* The calls *)

Call(op, args, id, fault, raised, opened, closed, rolled_back, committed) ==
    [op |-> op, args |-> args, id |-> id, fault |-> fault, raised |-> raised,
     opened |-> opened, closed |-> closed,
     rolled_back |-> rolled_back, committed |-> committed]

ValidationError == "ValueError: required"
NotFoundError == "ValueError: not found"
StorageError == "sqlite3.Error"
NoError == "None"

\* between calls: the caller has taken the outcome of the last one
Idle == Call("idle", NoArgs, NoId, "none", NoError, 0, 0, FALSE, FALSE)

WriteFaults == {"none", "cursor", "execute", "commit"}

\* mutant: the row-count check is missing
TryWrite_NoRowcount(d, stmt, fault, checks_rowcount) ==
    IF fault = "execute" \/ ~stmt.ok
    THEN [db |-> Rollback(d, d), raised |-> StorageError,
          rolled_back |-> TRUE, committed |-> FALSE, closed |-> 1]
    ELSE IF fault = "commit"
    THEN [db |-> Rollback(d, stmt.db), raised |-> StorageError,
          rolled_back |-> TRUE, committed |-> FALSE, closed |-> 1]
    ELSE [db |-> Commit(d, stmt.db), raised |-> NoError,
          rolled_back |-> FALSE, committed |-> TRUE, closed |-> 1]

\* try: execute; [rowcount check;] commit / except: rollback; raise / finally: close
TryWrite(d, stmt, fault, checks_rowcount) ==
    IF fault = "execute" \/ ~stmt.ok
    THEN [db |-> Rollback(d, d), raised |-> StorageError,
          rolled_back |-> TRUE, committed |-> FALSE, closed |-> 1]
    ELSE IF checks_rowcount /\ stmt.rowcount = 0
    THEN [db |-> Rollback(d, stmt.db), raised |-> NotFoundError,
          rolled_back |-> TRUE, committed |-> FALSE, closed |-> 1]
    ELSE IF fault = "commit"
    THEN [db |-> Rollback(d, stmt.db), raised |-> StorageError,
          rolled_back |-> TRUE, committed |-> FALSE, closed |-> 1]
    ELSE [db |-> Commit(d, stmt.db), raised |-> NoError,
          rolled_back |-> FALSE, committed |-> TRUE, closed |-> 1]

\* conn = get_connection(); cursor = conn.cursor(); then the try block
Write(op, args, id, fault, stmt, checks_rowcount) ==
    IF fault = "cursor"
    THEN /\ last' = Call(op, args, id, fault, StorageError, 1, 0, FALSE, FALSE)
         /\ UNCHANGED <<expenses, budgets, sqlite_sequence>>
    ELSE LET o == TryWrite(Db, stmt, fault, checks_rowcount)
         IN  /\ Store(o.db)
             /\ last' = Call(op, args, id, fault, o.raised, 1, o.closed,
                             o.rolled_back, o.committed)

ExpenseArgs(description, amount, category, date, notes) ==
    [description |-> description, amount |-> amount, category |-> category,
     date |-> date, notes |-> notes]

\* mutant: the date is not checked
ValidExpense_NoDate(description, amount, category, date) ==
    ~(~Truthy(description) \/ LeZero(amount) \/ ~Truthy(category))

\* the check at the head of add_expense and update_expense
ValidExpense(description, amount, category, date) ==
    ~(~Truthy(description) \/ LeZero(amount) \/ ~Truthy(category) \/ ~Truthy(date))

add_expense(description, amount, category, date, notes, fault) ==
    LET args == ExpenseArgs(description, amount, category, date, notes)
    IN  /\ ret' = <<>>
        /\ before' = Db
        /\ UNCHANGED <<now, deleted>>
        /\ IF ~ValidExpense(description, amount, category, date)
           THEN /\ last' = Call("add_expense", args, NoId, "none", ValidationError,
                                0, 0, FALSE, FALSE)
                /\ UNCHANGED <<expenses, budgets, sqlite_sequence>>
           ELSE Write("add_expense", args, NoId, fault,
                      InsertExpense(Db, description, amount, category, date, notes),
                      FALSE)

update_expense(expense_id, description, amount, category, date, notes, fault) ==
    LET args == ExpenseArgs(description, amount, category, date, notes)
    IN  /\ ret' = <<>>
        /\ before' = Db
        /\ UNCHANGED <<now, deleted>>
        /\ IF ~ValidExpense(description, amount, category, date)
           THEN /\ last' = Call("update_expense", args, expense_id, "none",
                                ValidationError, 0, 0, FALSE, FALSE)
                /\ UNCHANGED <<expenses, budgets, sqlite_sequence>>
           ELSE Write("update_expense", args, expense_id, fault,
                      UpdateExpense(Db, expense_id, description, amount, category,
                                    date, notes),
                      TRUE)

delete_expense(expense_id, fault) ==
    /\ ret' = <<>>
    /\ before' = Db
    /\ UNCHANGED now
    /\ Write("delete_expense", NoArgs, expense_id, fault,
             DeleteExpense(Db, expense_id), TRUE)
    /\ deleted' = IF last'.raised = NoError THEN deleted \cup {expense_id} ELSE deleted

BudgetArgs(category, amount, period, description) ==
    [category |-> category, amount |-> amount, period |-> period,
     description |-> description]

\* mutant: the amount is not checked
ValidBudget_NoAmount(category, amount) == ~(~Truthy(category))

\* the check at the head of set_budget
ValidBudget(category, amount) == ~(~Truthy(category) \/ LeZero(amount))

set_budget(category, amount, period, description, fault) ==
    LET args == BudgetArgs(category, amount, period, description)
    IN  /\ ret' = <<>>
        /\ before' = Db
        /\ UNCHANGED <<now, deleted>>
        /\ IF ~ValidBudget(category, amount)
           THEN /\ last' = Call("set_budget", args, NoId, "none", ValidationError,
                                0, 0, FALSE, FALSE)
                /\ UNCHANGED <<expenses, budgets, sqlite_sequence>>
           ELSE Write("set_budget", args, NoId, fault,
                      ReplaceBudget(Db, category, amount, period, description),
                      FALSE)

delete_budget(budget_id, fault) ==
    /\ ret' = <<>>
    /\ before' = Db
    /\ UNCHANGED <<now, deleted>>
    /\ Write("delete_budget", NoArgs, budget_id, fault,
             DeleteBudget(Db, budget_id), TRUE)

ReadFaults == {"none", "execute"}

\* mutant: the except branch re-raises
Read_Raises(op, args, fault, results) ==
    /\ before' = Db
    /\ UNCHANGED <<expenses, budgets, sqlite_sequence, now, deleted>>
    /\ IF fault = "execute"
       THEN /\ ret' = <<>>
            /\ last' = Call(op, args, NoId, fault, StorageError, 1, 1, FALSE, FALSE)
       ELSE /\ ret' \in results
            /\ last' = Call(op, args, NoId, fault, NoError, 1, 1, FALSE, FALSE)

\* conn = get_connection(); try: return the query's rows / except: return an
\* empty DataFrame / finally: close
Read(op, args, fault, results) ==
    /\ before' = Db
    /\ UNCHANGED <<expenses, budgets, sqlite_sequence, now, deleted>>
    /\ last' = Call(op, args, NoId, fault, NoError, 1, 1, FALSE, FALSE)
    /\ IF fault = "execute" THEN ret' = <<>> ELSE ret' \in results

get_expenses(fault) == Read("get_expenses", NoArgs, fault, SelectExpenses(Db))

get_budgets(fault) == Read("get_budgets", NoArgs, fault, SelectBudgets(Db))

SearchArgs(search_term) == [search_term |-> search_term]

search_expenses(search_term, fault) ==
    IF ~Truthy(search_term)
    THEN Read("search_expenses", SearchArgs(search_term), fault, SelectExpenses(Db))
    ELSE Read("search_expenses", SearchArgs(search_term), fault,
              SelectSearch(Db, "%" \o search_term \o "%"))

SummaryArgs(start_date, end_date) == [start_date |-> start_date, end_date |-> end_date]

get_expense_summary(start_date, end_date, fault) ==
    Read("get_expense_summary", SummaryArgs(start_date, end_date), fault,
         SelectSummary(Db, start_date, end_date))

get_monthly_spending(fault) ==
    Read("get_monthly_spending", NoArgs, fault, SelectMonthly(Db))

CategoryFaults == {"none", "cursor", "execute"}

\* mutant: no fallback list when the table holds no category
CategoryList_NoDefaults(d) == SelectCategories(d)

\* the cursor is made before the try block; a failing query answers with the
\* default categories, and so does a table without rows
\* what get_categories returns when its query runs
CategoryList(d) ==
    {IF categories = <<>> THEN DefaultCategories ELSE categories :
        categories \in SelectCategories(d)}

get_categories(fault) ==
    /\ before' = Db
    /\ UNCHANGED <<expenses, budgets, sqlite_sequence, now, deleted>>
    /\ IF fault = "cursor"
       THEN /\ last' = Call("get_categories", NoArgs, NoId, fault, StorageError,
                            1, 0, FALSE, FALSE)
            /\ ret' = <<>>
       ELSE /\ last' = Call("get_categories", NoArgs, NoId, fault, NoError,
                            1, 1, FALSE, FALSE)
            /\ IF fault = "execute"
               THEN ret' = DefaultCategories
               ELSE ret' \in CategoryList(Db)

------------------------------------------------------------------------------
(* Inputs *)

BudgetInputs ==
    { BudgetArgs("Food & Dining", 20000, "Monthly", NULL),
      BudgetArgs("Food & Dining", 5000, "Weekly", "groceries"),
      BudgetArgs("Transportation", 6000, "Monthly", NULL),
      BudgetArgs("", 20000, "Monthly", NULL),
      BudgetArgs("Food & Dining", 0, "Monthly", NULL),
      BudgetArgs("Food & Dining", -100, "Monthly", NULL),
      BudgetArgs("Food & Dining", NaN, "Monthly", NULL) }

SearchTerms == {NULL, "", "BUS", "din", "%"}

DateBounds == {NULL, "2024-01-01", "2024-01-02", "2024-01-05"}

ExpenseIds == 1..(MaxRows - 1)
BudgetIds == 1..(MaxRows - 1)

RowsInserted == sqlite_sequence.expenses + sqlite_sequence.budgets

ExpenseInputs ==
    { ExpenseArgs("Coffee", 450, "Food & Dining", "2024-01-05", NULL),
      ExpenseArgs("Bus pass", 6000, "Transportation", "2024-01-01", "monthly"),
      ExpenseArgs("", 450, "Food & Dining", "2024-01-05", NULL),
      ExpenseArgs(NULL, 450, "Food & Dining", "2024-01-05", NULL),
      ExpenseArgs("Coffee", 0, "Food & Dining", "2024-01-05", NULL),
      ExpenseArgs("Coffee", -100, "Food & Dining", "2024-01-05", NULL),
      ExpenseArgs("Coffee", NaN, "Food & Dining", "2024-01-05", NULL),
      ExpenseArgs("Coffee", 450, "", "2024-01-05", NULL),
      ExpenseArgs("Coffee", 450, "Food & Dining", "", NULL) }

------------------------------------------------------------------------------
(* The specification *)

Init ==
    /\ expenses = {}
    /\ budgets = {}
    /\ sqlite_sequence = [expenses |-> 0, budgets |-> 0]
    /\ now = 1
    /\ last = Idle
    /\ ret = <<>>
    /\ deleted = {}
    /\ before = [expenses |-> {}, budgets |-> {},
                 sqlite_sequence |-> [expenses |-> 0, budgets |-> 0]]

Tick ==
    /\ last = Idle
    /\ now < MaxTime
    /\ now' = now + 1
    /\ UNCHANGED <<expenses, budgets, sqlite_sequence, last, ret, deleted, before>>

\* a fault has a step to strike only once the arguments have passed validation
ExpenseFaults(a) ==
    IF ValidExpense(a.description, a.amount, a.category, a.date)
    THEN WriteFaults ELSE {"none"}

BudgetFaults(b) == IF ValidBudget(b.category, b.amount) THEN WriteFaults ELSE {"none"}

\* the caller takes the outcome (shows the result or the error) and goes on
Return ==
    /\ last # Idle
    /\ last' = Idle
    /\ ret' = <<>>
    /\ before' = Db
    /\ UNCHANGED <<expenses, budgets, sqlite_sequence, now, deleted>>

AddExpense ==
    \E a \in ExpenseInputs : \E fault \in ExpenseFaults(a) :
        /\ last = Idle
        /\ RowsInserted < MaxRows
        /\ add_expense(a.description, a.amount, a.category, a.date, a.notes, fault)

UpdateExpenseCall ==
    \E id \in ExpenseIds, a \in ExpenseInputs : \E fault \in ExpenseFaults(a) :
        /\ last = Idle
        /\ update_expense(id, a.description, a.amount, a.category, a.date, a.notes, fault)

DeleteExpenseCall ==
    \E id \in ExpenseIds, fault \in WriteFaults :
        /\ last = Idle
        /\ delete_expense(id, fault)

SetBudget ==
    \E b \in BudgetInputs : \E fault \in BudgetFaults(b) :
        /\ last = Idle
        /\ RowsInserted < MaxRows
        /\ set_budget(b.category, b.amount, b.period, b.description, fault)

DeleteBudgetCall ==
    \E id \in BudgetIds, fault \in WriteFaults :
        /\ last = Idle
        /\ delete_budget(id, fault)

GetExpenses ==
    \E fault \in ReadFaults : last = Idle /\ get_expenses(fault)

GetBudgets ==
    \E fault \in ReadFaults : last = Idle /\ get_budgets(fault)

GetCategories ==
    \E fault \in CategoryFaults : last = Idle /\ get_categories(fault)

SearchExpenses ==
    \E term \in SearchTerms, fault \in ReadFaults :
        last = Idle /\ search_expenses(term, fault)

GetExpenseSummary ==
    \E start_date \in DateBounds, end_date \in DateBounds, fault \in ReadFaults :
        last = Idle /\ get_expense_summary(start_date, end_date, fault)

GetMonthlySpending ==
    \E fault \in ReadFaults : last = Idle /\ get_monthly_spending(fault)

Next ==
    \/ Tick
    \/ Return
    \/ AddExpense
    \/ UpdateExpenseCall
    \/ DeleteExpenseCall
    \/ SetBudget
    \/ DeleteBudgetCall
    \/ GetExpenses
    \/ GetBudgets
    \/ GetCategories
    \/ SearchExpenses
    \/ GetExpenseSummary
    \/ GetMonthlySpending

Spec == Init /\ [][Next]_vars

------------------------------------------------------------------------------
(* The reports over a wider range of stored expenses: categories typed in by
   the user (app.py's "Other"), several months, and date text that
   add_expense stores although it is no calendar date *)

ReportInputs ==
    { ExpenseArgs("Coffee", 450, "Food & Dining", "2024-01-05", NULL),
      ExpenseArgs("Bus pass", 6000, "Transportation", "2024-01-01", "monthly"),
      ExpenseArgs("Tea", 300, "groceries", "2024-02-10", NULL),
      ExpenseArgs("Rent", 90000, "Bills & Utilities", "2023-12-31", NULL),
      ExpenseArgs("Gift", 2500, "Shopping", "soon", NULL),
      ExpenseArgs("Trip", 12000, "Travel", "2024-02-30", NULL) }

AddReported ==
    \E a \in ReportInputs :
        /\ last = Idle
        /\ RowsInserted < MaxRows
        /\ add_expense(a.description, a.amount, a.category, a.date, a.notes, "none")

DeleteReported ==
    \E id \in ExpenseIds :
        /\ last = Idle
        /\ delete_expense(id, "none")

ReportNext ==
    \/ Return
    \/ AddReported
    \/ DeleteReported
    \/ GetCategories
    \/ GetMonthlySpending

ReportSpec == Init /\ [][ReportNext]_vars

------------------------------------------------------------------------------
(* Doubles.  Amounts are whole cents; Python holds them as doubles and divides
   in double arithmetic.  A double is written by an exact fraction num/den
   (den > 0) and the number of places (off) it lies above or below the double
   nearest to that fraction, which is all a comparison with a threshold on the
   fraction needs.  Decimal literals (0.9) and whole numbers are the nearest
   doubles of their values. *)

Double(num, den, off) == [num |-> num, den |-> den, off |-> off]

Whole(n) == Double(n, 1, 0)

\* x > y
Greater(x, y) ==
    \/ x.num * y.den > y.num * x.den
    \/ x.num * y.den = y.num * x.den /\ x.off > y.off

\* IEEE-754 results for the amounts used below, in cents: 0.27 / 0.30 is
\* 0.9000000000000001, one place above the double 0.9; 0.09 / 0.10 is
\* 0.8999999999999999 and 1.20 / 0.10 is 11.999999999999998, one place below
QuotientOff(a, b) ==
    IF <<a, b>> \in {<<27, 30>>} THEN 1
    ELSE IF <<a, b>> \in {<<9, 10>>, <<120, 10>>} THEN -1
    ELSE 0

\* a / b
Quotient(a, b) == Double(a, b, QuotientOff(a, b))

\* (0.27 / 0.30) * 100 is 90.00000000000001, (0.50 / 0.30) * 100 and
\* (1.00 / 0.30) * 100 lie one place above the nearest double too;
\* (0.09 / 0.10) * 100 is 89.99999999999999, (1.20 / 0.10) * 100 is
\* 1199.9999999999998
PercentOff(a, b) ==
    IF <<a, b>> \in {<<27, 30>>, <<50, 30>>, <<100, 30>>} THEN 1
    ELSE IF <<a, b>> \in {<<9, 10>>, <<120, 10>>} THEN -1
    ELSE 0

\* (a / b) * 100
Percent(a, b) == Double(100 * a, b, PercentOff(a, b))

------------------------------------------------------------------------------
(* utils.py: calculate_budget_status, validate_expense_data; app.py: the
   budget progress of show_dashboard.  They keep no state: a call takes its
   arguments and hands back its result. *)

StatusArgs(spent_amount, budget_amount) ==
    [spent_amount |-> spent_amount, budget_amount |-> budget_amount]

calculate_budget_status(spent_amount, budget_amount) ==
    IF budget_amount <= 0
    THEN [percentage |-> Whole(0), remaining |-> 0,
          status |-> "No Budget Set", color |-> "gray"]
    ELSE LET percentage == Percent(spent_amount, budget_amount)
             remaining == budget_amount - spent_amount
             capped == IF Greater(percentage, Whole(100)) THEN Whole(100)
                       ELSE percentage
         IN  IF ~Greater(Whole(100), percentage)
             THEN [percentage |-> capped, remaining |-> remaining,
                   status |-> "Over Budget", color |-> "red"]
             ELSE IF ~Greater(Whole(90), percentage)
             THEN [percentage |-> capped, remaining |-> remaining,
                   status |-> "Near Limit", color |-> "orange"]
             ELSE IF ~Greater(Whole(75), percentage)
             THEN [percentage |-> capped, remaining |-> remaining,
                   status |-> "On Track", color |-> "yellow"]
             ELSE [percentage |-> capped, remaining |-> remaining,
                   status |-> "Good", color |-> "green"]

\* mutant: the bar is not capped
Progress_Uncapped(category_spent, amount) ==
    IF amount > 0 THEN Quotient(category_spent, amount) ELSE Whole(0)

\* progress = min(category_spent / budget['amount'], 1.0) if budget['amount'] > 0 else 0
Progress(category_spent, amount) ==
    IF amount > 0
    THEN (IF Greater(Quotient(category_spent, amount), Whole(1)) THEN Whole(1)
          ELSE Quotient(category_spent, amount))
    ELSE Whole(0)

\* the if / elif / else that picks the label beside the bar
ProgressLabel(progress) ==
    IF Greater(progress, Double(9, 10, 0)) THEN "Near limit"
    ELSE IF Greater(progress, Whole(1)) THEN "Over budget"
    ELSE "On track"

\* amount is None, encoded outside the range of the amounts used
NoAmount == -(2000000)

\* the date argument: None, a str, or a datetime.date; day counts the days from
\* datetime.now().date() to the date a well-formed str or a date object names
NoDate == [type |-> "NoneType", text |-> NULL, day |-> 0]
DateStr(text) == [type |-> "str", text |-> text, day |-> 0]
IsoStr(day) == [type |-> "str", text |-> "%Y-%m-%d", day |-> day]
DateObj(day) == [type |-> "date", text |-> NULL, day |-> day]

RECURSIVE Strip(_)
Strip(text) ==
    IF Len(text) = 0 THEN text
    ELSE IF Char(text, 1) = " " THEN Strip(SubSeq(text, 2, Len(text)))
    ELSE IF Char(text, Len(text)) = " " THEN Strip(SubSeq(text, 1, Len(text) - 1))
    ELSE text

\* not description or description.strip() == ""
Missing(text) == ~Truthy(text) \/ Strip(text) = ""

\* not date
NotDate(date) == date.type = "NoneType" \/ (date.type = "str" /\ date.text = "")

\* strptime(date, "%Y-%m-%d") raises ValueError on other text,
\* datetime.combine raises TypeError on None
Parses(date) ==
    IF date.type = "str" THEN date.text = "%Y-%m-%d" ELSE date.type = "date"

ValidationArgs(description, amount, category, date) ==
    [description |-> description, amount |-> amount, category |-> category,
     date |-> date]

\* mutant: the first violated rule ends the validation
validate_expense_data_FailFast(description, amount, category, date) ==
    IF Missing(description) THEN <<"Description is required">>
    ELSE IF amount = NoAmount \/ amount <= 0 THEN <<"Amount must be greater than 0">>
    ELSE IF Missing(category) THEN <<"Category is required">>
    ELSE IF NotDate(date) THEN <<"Date is required">>
    ELSE IF ~Parses(date) THEN <<"Invalid date format">>
    ELSE IF date.day > 0 THEN <<"Date cannot be in the future">>
    ELSE IF date.day < -3650 THEN <<"Date seems too far in the past">>
    ELSE <<>>

validate_expense_data(description, amount, category, date) ==
    (IF Missing(description) THEN <<"Description is required">> ELSE <<>>)
    \o (IF amount = NoAmount \/ amount <= 0
        THEN <<"Amount must be greater than 0">> ELSE <<>>)
    \o (IF Missing(category) THEN <<"Category is required">> ELSE <<>>)
    \o (IF NotDate(date) THEN <<"Date is required">> ELSE <<>>)
    \o (IF ~Parses(date) THEN <<"Invalid date format">>
        ELSE (IF date.day > 0 THEN <<"Date cannot be in the future">> ELSE <<>>)
             \o (IF date.day < -3650
                 THEN <<"Date seems too far in the past">> ELSE <<>>))

SpentAmounts == {0, 9, 27, 50, 75, 90, 100, 120}
BudgetAmounts == {10, 30, 100}
NoBudgetAmounts == {-10, 0}

Descriptions == {NULL, "", " ", "Coffee"}
Amounts == {NoAmount, -100, 0, 1, 450}
Categories == {NULL, "", "Food & Dining"}
Dates ==
    {NoDate, DateStr(""), DateStr("soon")}
    \cup {IsoStr(day) : day \in {-3651, -3650, 0, 1}}
    \cup {DateObj(day) : day \in {-3651, -3650, 0, 1}}

\* a helper keeps no state: it is handed its arguments and hands back a result
Helper(op, args, result) ==
    /\ last' = Call(op, args, NoId, "none", NoError, 0, 0, FALSE, FALSE)
    /\ ret' = result
    /\ before' = Db
    /\ UNCHANGED <<expenses, budgets, sqlite_sequence, now, deleted>>

CalculateBudgetStatus ==
    \E spent_amount \in SpentAmounts, budget_amount \in BudgetAmounts \cup NoBudgetAmounts :
        /\ last = Idle
        /\ Helper("calculate_budget_status",
                  StatusArgs(spent_amount, budget_amount),
                  <<calculate_budget_status(spent_amount, budget_amount)>>)

\* the stored budget amounts are positive
ShowDashboard ==
    \E category_spent \in SpentAmounts, amount \in BudgetAmounts :
        /\ last = Idle
        /\ Helper("show_dashboard", StatusArgs(category_spent, amount),
                  <<[progress |-> Progress(category_spent, amount),
                     label |-> ProgressLabel(Progress(category_spent, amount))]>>)

ValidateExpenseData ==
    \E description \in Descriptions, amount \in Amounts,
       category \in Categories, date \in Dates :
        /\ last = Idle
        /\ Helper("validate_expense_data",
                  ValidationArgs(description, amount, category, date),
                  validate_expense_data(description, amount, category, date))

UtilsNext ==
    \/ Return
    \/ CalculateBudgetStatus
    \/ ShowDashboard
    \/ ValidateExpenseData

UtilsSpec == Init /\ [][UtilsNext]_vars

------------------------------------------------------------------------------
(* The claims *)

WriteOps == {"add_expense", "update_expense", "delete_expense", "set_budget",
             "delete_budget"}

Range(s) == {s[i] : i \in 1..Len(s)}

Positive(amount) == amount # NaN /\ amount > 0

TablesAsBefore == expenses = before.expenses /\ budgets = before.budgets

\* C1: whatever calls were made, accepted or rejected, every stored expense amount
\* and every stored budget amount is strictly greater than 0.
C1_AmountsPositive ==
    /\ \A r \in expenses : Positive(r.amount)
    /\ \A b \in budgets : Positive(b.amount)

C1_Witness ==
    /\ expenses # {}
    /\ budgets # {}
    /\ last.op \in {"add_expense", "update_expense", "set_budget"}
    /\ last.raised = ValidationError
    /\ last.args.amount <= 0

\* C2: the budgets table never holds two rows of one category; and a set_budget
\* that succeeds on a category that had a budget leaves exactly one row of that
\* category, with the call's amount, period and description, and as many rows
\* as before.
C2_OneBudgetPerCategory ==
    /\ \A b1, b2 \in budgets : b1.category = b2.category => b1 = b2
    /\ ( /\ last.op = "set_budget"
         /\ last.raised = NoError
         /\ \E b \in before.budgets : b.category = last.args.category )
       => /\ Cardinality({b \in budgets : b.category = last.args.category}) = 1
          /\ \A b \in budgets :
                b.category = last.args.category
                => /\ b.amount = last.args.amount
                   /\ b.period = last.args.period
                   /\ b.description = last.args.description
          /\ Cardinality(budgets) = Cardinality(before.budgets)

C2_Witness ==
    /\ last.op = "set_budget"
    /\ last.raised = NoError
    /\ Cardinality(budgets) = 2
    /\ \E b \in before.budgets :
          /\ b.category = last.args.category
          /\ b.amount # last.args.amount
          /\ b.period # last.args.period

\* C3: add_expense with a non-empty description, category and date and an amount
\* above 0 (and no storage fault) succeeds, and get_expenses then returns the
\* rows stored before, unchanged, plus exactly one new row that carries the
\* arguments; get_categories then lists the category.
C3_AddThenList ==
    ( /\ last.op = "add_expense"
      /\ last.fault = "none"
      /\ Truthy(last.args.description)
      /\ Positive(last.args.amount)
      /\ Truthy(last.args.category)
      /\ Truthy(last.args.date) )
    => /\ last.raised = NoError
       /\ SelectExpenses(Db) # {}
       /\ \A s \in SelectExpenses(Db) :
             /\ Len(s) = Cardinality(before.expenses) + 1
             /\ \E n \in Range(s) \ before.expenses :
                   /\ Range(s) = before.expenses \cup {n}
                   /\ n.description = last.args.description
                   /\ n.amount = last.args.amount
                   /\ n.category = last.args.category
                   /\ n.date = last.args.date
                   /\ n.notes = last.args.notes
       /\ \A c \in CategoryList(Db) : last.args.category \in Range(c)

C3_Witness ==
    /\ last.op = "add_expense"
    /\ last.raised = NoError
    /\ before.expenses # {}
    /\ last.args.notes # NULL

\* C4: update_expense on the id of a stored expense, with valid fields (and no
\* storage fault), succeeds and replaces the row's description, amount,
\* category, date and notes; the row's id and created_at, every other expense
\* row and the budgets table are as before.
C4_UpdateFrame ==
    ( /\ last.op = "update_expense"
      /\ last.fault = "none"
      /\ Truthy(last.args.description)
      /\ Positive(last.args.amount)
      /\ Truthy(last.args.category)
      /\ Truthy(last.args.date)
      /\ \E r \in before.expenses : r.id = last.id )
    => /\ last.raised = NoError
       /\ \E old \in before.expenses :
             /\ old.id = last.id
             /\ expenses = (before.expenses \ {old}) \cup
                   {[id |-> old.id,
                     description |-> last.args.description,
                     amount |-> last.args.amount,
                     category |-> last.args.category,
                     date |-> last.args.date,
                     notes |-> last.args.notes,
                     created_at |-> old.created_at]}
       /\ budgets = before.budgets

C4_Witness ==
    /\ last.op = "update_expense"
    /\ last.raised = NoError
    /\ Cardinality(expenses) = 2
    /\ budgets # {}
    /\ \E old \in before.expenses :
          /\ old.id = last.id
          /\ old.description # last.args.description
          /\ old.notes # last.args.notes
          /\ old.created_at # now

NoRowMatches ==
    \/ /\ last.op \in {"update_expense", "delete_expense"}
       /\ \A r \in before.expenses : r.id # last.id
    \/ /\ last.op = "delete_budget"
       /\ \A b \in before.budgets : b.id # last.id

\* the statement ran: the driver failed neither at the cursor nor at the statement
StatementRan == last.fault \in {"none", "commit"}

\* C5 as stated: update_expense, delete_expense and delete_budget on an id that
\* matches no stored row always fail with the not-found error and leave both
\* tables as they were.
C5_Original ==
    (NoRowMatches /\ StatementRan)
    => last.raised = NotFoundError /\ TablesAsBefore

\* C5, amended: delete_expense and delete_budget, and update_expense called with
\* arguments that pass its validation, on an id that matches no stored row fail
\* with the not-found error and leave both tables as they were.
C5_NotFound ==
    ( /\ NoRowMatches
      /\ StatementRan
      /\ last.op = "update_expense"
         => ValidExpense(last.args.description, last.args.amount,
                         last.args.category, last.args.date) )
    => last.raised = NotFoundError /\ TablesAsBefore

C5_Witness ==
    /\ last.op = "update_expense"
    /\ last.raised = NotFoundError
    /\ expenses # {}
    /\ budgets # {}

\* C6: once delete_expense(id) has succeeded no stored row and no row returned by
\* get_expenses or search_expenses has that id (ids are unique and are not issued
\* again), and the delete removes that row and no other.
C6_DeletedStaysDeleted ==
    /\ \A r \in expenses : r.id \notin deleted
    /\ \A r1, r2 \in expenses : r1.id = r2.id => r1 = r2
    /\ last.op \in {"get_expenses", "search_expenses"}
       => \A r \in Range(ret) : r.id \notin deleted
    /\ (last.op = "delete_expense" /\ last.raised = NoError)
       => /\ last.id \in deleted
          /\ \E r \in before.expenses : r.id = last.id
          /\ expenses = {r \in before.expenses : r.id # last.id}

C6_Witness ==
    /\ last.op = "search_expenses"
    /\ Truthy(last.args.search_term)
    /\ deleted # {}
    /\ ret # <<>>
    /\ \E r \in Range(ret) : \E id \in deleted : id < r.id

Rejected ==
    /\ last.raised = ValidationError
    /\ last.opened = 0
    /\ TablesAsBefore

\* C7: add_expense and update_expense with an empty or missing description,
\* category or date or an amount <= 0, and set_budget with an empty category or
\* an amount <= 0, fail with the validation error without opening a connection
\* and leave both tables as they were.
C7_RejectedBeforeWrite ==
    /\ ( /\ last.op \in {"add_expense", "update_expense"}
         /\ \/ last.args.description \in {NULL, ""}
            \/ last.args.category \in {NULL, ""}
            \/ last.args.date \in {NULL, ""}
            \/ (last.args.amount # NaN /\ last.args.amount <= 0) )
       => Rejected
    /\ ( /\ last.op = "set_budget"
         /\ \/ last.args.category \in {NULL, ""}
            \/ (last.args.amount # NaN /\ last.args.amount <= 0) )
       => Rejected

C7_Witness ==
    /\ last.op = "update_expense"
    /\ last.raised = ValidationError
    /\ last.args.date = ""
    /\ \E r \in expenses : r.id = last.id
    /\ budgets # {}

\* C8: when the statement of a write operation (or its commit) fails with a
\* storage error, the operation rolls back, raises the storage error, and the
\* committed tables are exactly what they were before the call.
C8_RollbackOnStorageError ==
    ( /\ last.op \in WriteOps
      /\ \/ last.fault = "execute"
         \/ last.fault = "commit" /\ last.raised # NotFoundError )
    => /\ last.raised = StorageError
       /\ last.rolled_back
       /\ ~last.committed
       /\ TablesAsBefore
       /\ sqlite_sequence = before.sqlite_sequence

C8_Witness ==
    /\ last.op = "update_expense"
    /\ last.fault = "execute"
    /\ last.raised = StorageError
    /\ last.rolled_back
    /\ \E r \in expenses : r.id = last.id /\ r.description # last.args.description
    /\ budgets # {}

\* C9 as stated: whatever the outcome of a write operation, failure to create the
\* cursor included, every connection it opened is closed exactly once before it
\* returns or raises.
C9_ConnectionClosed ==
    last.op \in WriteOps => last.closed = last.opened

\* C10: get_expenses, get_budgets, search_expenses, get_expense_summary and
\* get_monthly_spending do not raise when their query fails: they return an
\* empty result, close the connection, and leave the store as it was.
C10_ReadsSwallowErrors ==
    ( /\ last.op \in {"get_expenses", "get_budgets", "search_expenses",
                      "get_expense_summary", "get_monthly_spending"}
      /\ last.fault = "execute" )
    => /\ last.raised = NoError
       /\ ret = <<>>
       /\ last.opened = 1 /\ last.closed = 1
       /\ Db = before

C10_Witness ==
    /\ last.op = "get_expense_summary"
    /\ last.fault = "execute"
    /\ expenses # {}
    /\ budgets # {}

ListedAll == Len(ret) = Cardinality(expenses) /\ Range(ret) = expenses

\* C11 as stated: get_expenses returns every stored expense exactly once, by date
\* descending, and of two expenses with the same date the one inserted later
\* always comes first.
C11_Original ==
    (last.op = "get_expenses" /\ last.fault = "none")
    => /\ ListedAll
       /\ \A i, j \in 1..Len(ret) : i < j =>
              /\ TextLeq(ret[j].date, ret[i].date)
              /\ ret[i].date = ret[j].date => ret[i].id > ret[j].id

\* C11: get_expenses returns every stored expense exactly once, by date
\* descending and, for equal dates, by created_at descending: of two expenses
\* with the same date the one inserted in a later second comes first (two that
\* were inserted within the same second come in either order).
C11_ListOrder ==
    (last.op = "get_expenses" /\ last.fault = "none")
    => /\ ListedAll
       /\ \A i, j \in 1..Len(ret) : i < j =>
              /\ TextLeq(ret[j].date, ret[i].date)
              /\ ret[i].date = ret[j].date => ret[i].created_at >= ret[j].created_at
              /\ (ret[i].date = ret[j].date /\ ret[i].created_at # ret[j].created_at)
                 => ret[i].id > ret[j].id

C11_Witness ==
    /\ last.op = "get_expenses"
    /\ last.fault = "none"
    /\ \E i, j \in 1..Len(ret) :
          /\ ret[i].date = ret[j].date
          /\ ret[i].created_at > ret[j].created_at
    /\ \E i, j \in 1..Len(ret) : TextLess(ret[j].date, ret[i].date)

RECURSIVE FoldText(_)
FoldText(s) == IF Len(s) = 0 THEN s ELSE Fold(Char(s, 1)) \o FoldText(SubSeq(s, 2, Len(s)))

\* the order of a dictionary: letters compare without regard to their case
AlphabeticalLess(a, b) == TextLess(FoldText(a), FoldText(b))

CategoriesListed ==
    /\ Len(ret) = Cardinality({r.category : r \in expenses})
    /\ Range(ret) = {r.category : r \in expenses}

\* C12 as stated: get_categories returns exactly the categories of the stored
\* expenses, each once, in ascending alphabetical order, when an expense is
\* stored, and the 9 default names when none is.
C12_Original ==
    (last.op = "get_categories" /\ last.fault = "none")
    => IF expenses = {}
       THEN ret = DefaultCategories
       ELSE /\ CategoriesListed
            /\ \A i, j \in 1..Len(ret) : i < j => AlphabeticalLess(ret[i], ret[j])

\* C12: get_categories returns exactly the categories of the stored expenses,
\* each once, ascending in the byte order of the text (every uppercase letter
\* before every lowercase one), when an expense is stored, and the 9 default
\* names when none is, also after every expense has been deleted.
C12_Categories ==
    (last.op = "get_categories" /\ last.fault = "none")
    => IF expenses = {}
       THEN ret = DefaultCategories /\ Len(ret) = 9
       ELSE /\ CategoriesListed
            /\ \A i, j \in 1..Len(ret) : i < j => TextLess(ret[i], ret[j])

C12_Witness ==
    /\ last.op = "get_categories"
    /\ last.fault = "none"
    /\ Len(ret) = 2
    /\ Cardinality(expenses) = 3
    /\ \E i, j \in 1..Len(ret) : i < j /\ AlphabeticalLess(ret[j], ret[i])

C12_WitnessEmptied ==
    /\ last.op = "get_categories"
    /\ last.fault = "none"
    /\ expenses = {}
    /\ deleted # {}
    /\ ret = DefaultCategories

\* term occurs in text as a literal substring, letters compared without case
Occurs(term, text) ==
    /\ text # NULL
    /\ \E i \in 1..(Len(text) - Len(term) + 1) :
          FoldText(SubSeq(text, i, i + Len(term) - 1)) = FoldText(term)

Mentions(r, term) ==
    Occurs(term, r.description) \/ Occurs(term, r.notes) \/ Occurs(term, r.category)

\* C13 as stated: for a non-empty term search_expenses returns exactly the stored
\* expenses in which the term occurs as a case-insensitive literal substring of
\* description, notes or category, in the order of get_expenses; for an empty or
\* absent term it returns what get_expenses returns.
C13_LiteralSearch ==
    (last.op = "search_expenses" /\ last.fault = "none")
    => IF Truthy(last.args.search_term)
       THEN LET found == {r \in expenses : Mentions(r, last.args.search_term)}
            IN  ret \in Orderings(found,
                         {p \in found \X found : ExpenseBefore(p[1], p[2])})
       ELSE ret \in SelectExpenses(Db)

\* the stored expenses a summary with these bounds is about
Summarized(start_date, end_date) ==
    {r \in expenses : /\ start_date # NULL => TextLeq(start_date, r.date)
                      /\ end_date # NULL => TextLeq(r.date, end_date)}

\* C14: get_expense_summary aggregates exactly the stored expenses whose date
\* is at or after start_date when that is supplied and at or before end_date
\* when that is supplied; it returns one row per category among them, with the
\* category's count and total, ordered by total_amount descending.
C14_Summary ==
    (last.op = "get_expense_summary" /\ last.fault = "none")
    => LET rows == Summarized(last.args.start_date, last.args.end_date)
           of(c) == {r \in rows : r.category = c}
       IN  /\ Len(ret) = Cardinality({r.category : r \in rows})
           /\ {ret[i].category : i \in 1..Len(ret)} = {r.category : r \in rows}
           /\ \A i \in 1..Len(ret) :
                  /\ ret[i].transaction_count = Cardinality(of(ret[i].category))
                  /\ ret[i].total_amount = SumAmount(of(ret[i].category))
           /\ \A i, j \in 1..Len(ret) :
                  i < j => ret[i].total_amount >= ret[j].total_amount

C14_Witness ==
    /\ last.op = "get_expense_summary"
    /\ last.fault = "none"
    /\ last.args.start_date = "2024-01-02"
    /\ last.args.end_date = "2024-01-05"
    /\ Cardinality(expenses) = 3
    /\ Len(ret) = 1
    /\ ret[1].transaction_count = 2

\* a month label YYYY-MM
IsMonthLabel(m) ==
    /\ m # NULL
    /\ Len(m) = 7
    /\ \A i \in {1, 2, 3, 4, 6, 7} : IsDigit(Char(m, i))
    /\ Char(m, 5) = "-"
    /\ Num2(m, 6) \in 1..12

\* date is a day of the calendar written YYYY-MM-DD
IsCalendarDate(date) ==
    /\ IsDateText(date)
    /\ Num2(date, 9) <= DaysInMonth(Num4(date, 1), Num2(date, 6))

\* the month a stored date names: its first seven characters
MonthOf(date) == IF Len(date) >= 7 THEN SubSeq(date, 1, 7) ELSE date

\* ret has one row per month of the stored dates, with the month's sum and count,
\* the latest month first
MonthRows ==
    LET of(m) == {r \in expenses : MonthOf(r.date) = m}
    IN  /\ Len(ret) = Cardinality({MonthOf(r.date) : r \in expenses})
        /\ {ret[i].month : i \in 1..Len(ret)} = {MonthOf(r.date) : r \in expenses}
        /\ \A i \in 1..Len(ret) :
               /\ IsMonthLabel(ret[i].month)
               /\ ret[i].total_amount = SumAmount(of(ret[i].month))
               /\ ret[i].transaction_count = Cardinality(of(ret[i].month))
        /\ \A i, j \in 1..Len(ret) : i < j => TextLess(ret[j].month, ret[i].month)

RECURSIVE CountSum(_, _)
CountSum(rows, n) == IF n = 0 THEN 0 ELSE rows[n].transaction_count + CountSum(rows, n - 1)

\* C15 as stated: for every set of expenses add_expense can store,
\* get_monthly_spending returns one row per distinct calendar month of the stored
\* dates, labelled YYYY-MM, with the month's sum and count, latest month first,
\* and the counts add up to the number of stored expenses.
C15_Original ==
    (last.op = "get_monthly_spending" /\ last.fault = "none")
    => MonthRows /\ CountSum(ret, Len(ret)) = Cardinality(expenses)

\* C15: when every stored date is a calendar date written YYYY-MM-DD,
\* get_monthly_spending returns one row per distinct calendar month of the stored
\* dates, labelled YYYY-MM, with the month's sum and count, latest month first;
\* whatever is stored, the counts add up to the number of stored expenses.
C15_Monthly ==
    (last.op = "get_monthly_spending" /\ last.fault = "none")
    => /\ (\A r \in expenses : IsCalendarDate(r.date)) => MonthRows
       /\ CountSum(ret, Len(ret)) = Cardinality(expenses)

C15_Witness ==
    /\ last.op = "get_monthly_spending"
    /\ last.fault = "none"
    /\ \A r \in expenses : IsCalendarDate(r.date)
    /\ Cardinality(expenses) = 3
    /\ Len(ret) = 2
    /\ ret[1].month = "2024-01" /\ ret[1].transaction_count = 2
    /\ ret[2].month = "2023-12"

\* the budgets the call replaced: those of its category in the store it found
Replaced ==
    IF last.op = "set_budget" /\ last.raised = NoError
    THEN {b \in before.budgets : b.category = last.args.category}
    ELSE {}

\* C18: set_budget on a category that has a budget leaves a row with an id
\* larger than every id issued before, and the id the budget had is gone, so
\* that delete_budget with it fails with the not-found error; no call ever
\* gives a budget an id that was issued before.
C18_FreshBudgetId ==
    /\ \A old \in Replaced :
          /\ \E b \in budgets :
                /\ b.category = old.category
                /\ b.id > before.sqlite_sequence.budgets
                /\ \A o \in before.budgets : b.id > o.id
          /\ \A b \in budgets : b.id # old.id
          /\ TryWrite(Db, DeleteBudget(Db, old.id), "none", TRUE).raised = NotFoundError
    /\ \A b \in before.budgets : b.id <= before.sqlite_sequence.budgets
    /\ before.sqlite_sequence.budgets <= sqlite_sequence.budgets
    /\ \A b \in budgets \ before.budgets : b.id > before.sqlite_sequence.budgets

C18_Witness ==
    /\ Replaced # {}
    /\ \E b \in budgets : \A old \in Replaced : b.id > old.id
    /\ expenses # {}

\* the status the thresholds give, each comparison multiplied out
StatusOf(spent, budget) ==
    IF spent * 100 >= 100 * budget THEN "Over Budget"
    ELSE IF spent * 100 >= 90 * budget THEN "Near Limit"
    ELSE IF spent * 100 >= 75 * budget THEN "On Track"
    ELSE "Good"

\* C16 as stated: for budget <= 0 calculate_budget_status returns "No Budget Set"
\* with percentage 0 and remaining 0; for budget > 0 the status is "Over Budget"
\* when spent*100 >= 100*budget, else "Near Limit" when spent*100 >= 90*budget,
\* else "On Track" when spent*100 >= 75*budget, else "Good"; the percentage is
\* min(ratio, 100) and remaining is budget - spent.
C16_BudgetStatus ==
    last.op = "calculate_budget_status"
    => LET spent == last.args.spent_amount
           budget == last.args.budget_amount
           result == ret[1]
       IN  IF budget <= 0
           THEN /\ result.status = "No Budget Set"
                /\ result.percentage.num = 0
                /\ result.remaining = 0
           ELSE /\ result.status = StatusOf(spent, budget)
                /\ result.remaining = budget - spent
                /\ IF spent >= budget
                   THEN result.percentage.num = 100 * result.percentage.den
                   ELSE result.percentage.num * budget
                            = 100 * spent * result.percentage.den

\* the rules of validate_expense_data that these arguments violate, by message
Blank(text) == text = NULL \/ \A i \in 1..Len(text) : Char(text, i) = " "

IsDate(date) ==
    date.type = "date" \/ (date.type = "str" /\ date.text = "%Y-%m-%d")

Violated(a) ==
    {m \in {"Description is required"} : Blank(a.description)}
    \cup {m \in {"Amount must be greater than 0"} :
             a.amount = NoAmount \/ a.amount < 1}
    \cup {m \in {"Category is required"} : Blank(a.category)}
    \cup {m \in {"Date is required"} :
             a.date.type = "NoneType" \/ a.date = DateStr("")}
    \cup {m \in {"Invalid date format"} : ~IsDate(a.date)}
    \cup {m \in {"Date cannot be in the future"} : IsDate(a.date) /\ a.date.day >= 1}
    \cup {m \in {"Date seems too far in the past"} :
             IsDate(a.date) /\ a.date.day <= -3651}

\* C17: validate_expense_data returns all violated rules, one entry per violated
\* rule and none for a satisfied one (a missing date violates both the rule
\* that a date is given and the rule that it can be read as a date): it
\* reports an empty description, an amount 0 or negative, an empty category, a
\* missing date, a date one day after today and a date 3651 days before today,
\* and returns the empty list for a non-empty description and category with
\* amount 0.01 and a date of today or exactly 3650 days before today.
C17_AllViolatedRules ==
    last.op = "validate_expense_data"
    => LET a == last.args
       IN  /\ Range(ret) = Violated(a)
           /\ Len(ret) = Cardinality(Violated(a))
           /\ a.description = "" => "Description is required" \in Range(ret)
           /\ a.amount \in {0, -100} => "Amount must be greater than 0" \in Range(ret)
           /\ a.category = "" => "Category is required" \in Range(ret)
           /\ a.date \in {NoDate, DateStr("")} => "Date is required" \in Range(ret)
           /\ a.date \in {IsoStr(1), DateObj(1)}
                 => "Date cannot be in the future" \in Range(ret)
           /\ a.date \in {IsoStr(-3651), DateObj(-3651)}
                 => "Date seems too far in the past" \in Range(ret)
           /\ ( /\ a.description = "Coffee"
                /\ a.category = "Food & Dining"
                /\ a.amount = 1
                /\ a.date \in {IsoStr(0), DateObj(0), IsoStr(-3650), DateObj(-3650)} )
              => ret = <<>>

C17_Witness ==
    /\ last.op = "validate_expense_data"
    /\ last.args.description = ""
    /\ last.args.amount = 0
    /\ last.args.category = ""
    /\ last.args.date = IsoStr(1)
    /\ Len(ret) = 4

\* the bar is between empty and full
InUnit(progress) == ~Greater(Whole(0), progress) /\ ~Greater(progress, Whole(1))

\* C19 as stated: the progress of a budget lies in [0, 1]; the label is
\* "Near limit" when spent exceeds 90% of the budget amount and "On track"
\* otherwise; "Over budget" is never shown.
C19_Original ==
    last.op = "show_dashboard"
    => LET spent == last.args.spent_amount
           amount == last.args.budget_amount
       IN  /\ InUnit(ret[1].progress)
           /\ ret[1].label = IF 10 * spent > 9 * amount THEN "Near limit"
                             ELSE "On track"
           /\ ret[1].label # "Over budget"

\* C19: the progress of a budget lies in [0, 1]; the label is "Near limit" when
\* spent exceeds 90% of the budget amount (also when it exceeds the budget),
\* "On track" when spent is below 90% of it, and one of the two, as the
\* division rounds, when spent is exactly 90% of it; "Over budget" is never
\* shown.
C19_ProgressLabel ==
    last.op = "show_dashboard"
    => LET spent == last.args.spent_amount
           amount == last.args.budget_amount
       IN  /\ InUnit(ret[1].progress)
           /\ 10 * spent > 9 * amount => ret[1].label = "Near limit"
           /\ 10 * spent < 9 * amount => ret[1].label = "On track"
           /\ ret[1].label \in {"Near limit", "On track"}

C19_Witness ==
    /\ last.op = "show_dashboard"
    /\ last.args.spent_amount > last.args.budget_amount
    /\ ret[1].label = "Near limit"
    /\ ret[1].progress = Whole(1)

==============================================================================
